---- MODULE Spec2Model ----
(***************************************************************************)
(* A model of four parts of pymel:                                         *)
(*   - the pymelScrollFieldReporter plug-in command                        *)
(*     (src/misc/pymelScrollFieldReporter.py),                             *)
(*   - the helpers Singleton, metaStatic, ModuleInterceptor and            *)
(*     cacheProperty (src/util/__init__.py),                               *)
(*   - the environment helpers appendEnv, prependEnv, getEnvs and putEnv   *)
(*     (src/pymel/util/shell.py).                                          *)
(* Each part has its own variables, its own initial predicate and its own  *)
(* specification; a specification leaves the other parts' variables alone. *)
(*                                                                         *)
(* Text is a sequence of one-character strings; "NL" stands for the        *)
(* newline character, "QUOTE" for the double quote and "BSL" for the       *)
(* backslash.  A '|'-separated UI path is the sequence of its segments.    *)
(* A Python value that may be None is a sequence of length at most one:    *)
(* <<>> is None and <<v>> is the value v.                                  *)
(***************************************************************************)
EXTENDS Integers, Sequences, FiniteSets, TLC

VARIABLES
    \* ---- pymelScrollFieldReporter.py: module globals and host state
    reporters,      \* ReporterDict: full widget path -> [filters, history]
    callbackState,  \* global callbackState
    messageIdSet,   \* global messageIdSet
    messageId,      \* global messageId
    sourceType,     \* global sourceType: "None", "mel" or "python"
    globalFilters,  \* Reporter.globalFilters (class attribute)
    cmdReporter,    \* Reporter.cmdReporter (class attribute), <<>> is None
    hostCallbacks,  \* ids of the command-output callbacks the host holds
    widgets,        \* full paths of the scrollFields the host holds
    lastOp,         \* the last handler run and how it ended; for an edit, the
                    \* reporter edited and the text its refreshHistory put in the
                    \* scrollField (<<>>: none)
    delivered,      \* lines cmdCallback built while callbackState was True
    createdAt,      \* full path -> Len(delivered) when its Reporter was made
    \* ---- util/__init__.py: Singleton and metaStatic
    theInstance,    \* class -> <<>> or <<object id>>: cls.__dict__['_the_instance']
    objects,        \* sequence of [cls, content]: every object allocated, by id
    returned,       \* class -> sequence of object ids its instantiations returned
    lastCall,       \* the last operation on a metaStatic instance and its outcome
    \* ---- util/__init__.py: ModuleInterceptor
    moduleAttrs,    \* the wrapped module's namespace: attribute -> value
    callbackCalls,  \* attributes the callback was called with, in order
    lookup,         \* the last __getattr__ call and its outcome
    \* ---- util/__init__.py: cacheProperty
    cache,          \* instance -> <<>> (attribute absent) or <<value>>, value None included
    getterCalls,    \* instance -> number of calls of the getter
    produced,       \* instance -> the getter has returned a non-null value
    nullSet,        \* instance -> the last value stored by a set or the getter is None
    lastRead,       \* the last property access and its outcome
    \* ---- pymel/util/shell.py: the process environment
    environ,        \* os.environ: variable -> <<>> (unset) or <<text>>
    envCalls,       \* number of calls made on the environment
    lastEnv,        \* the last call: [op, env, value, before], before = os.environ
                    \* when it was made
    prevEnv         \* the call before it: [op, env, value]

varsReporter == <<reporters, callbackState, messageIdSet, messageId, sourceType,
                  globalFilters, cmdReporter, hostCallbacks, widgets, lastOp,
                  delivered, createdAt>>
varsStatic == <<theInstance, objects, returned, lastCall>>
varsInterceptor == <<moduleAttrs, callbackCalls, lookup>>
varsCache == <<cache, getterCalls, produced, nullSet, lastRead>>
varsShell == <<environ, envCalls, lastEnv, prevEnv>>
vars == <<varsReporter, varsStatic, varsInterceptor, varsCache, varsShell>>

(***************************************************************************)
(* Bounds of the model.                                                    *)
(***************************************************************************)
MaxDelivered == 2     \* messages the host delivers in one run
MaxInstantiations == 3 \* instantiations of one class in one run
MaxCalls == 3         \* callback calls / getter calls in one run
MaxEnvCalls == 3      \* calls made on the environment in one run

(***************************************************************************)
(* Generic helpers.                                                        *)
(***************************************************************************)
None == <<>>
Some(v) == <<v>>

\* dict.update( other ): keys of other win
Update(d, other) ==
    [k \in DOMAIN d \cup DOMAIN other |-> IF k \in DOMAIN other THEN other[k] ELSE d[k]]

\* dict.get( key, default )
Get(d, key, default) == IF key \in DOMAIN d THEN d[key] ELSE default

(***************************************************************************)
(* pymelScrollFieldReporter.py: constants.                                 *)
(***************************************************************************)
kPluginCmdName == "pymelScrollFieldReporter"
kMel == "mel"
kPython == "python"

\* OpenMaya.MCommandMessage message types, the indices of filterFlagNames
kHistory == 0
kDisplay == 1
kInfo == 2
kWarning == 3
kError == 4
kResult == 5
kStackTrace == 6

filterFlagNames ==
    <<"", "suppressPrintouts", "suppressInfo", "suppressWarnings",
      "suppressErrors", "suppressResults", "suppressStackTrace">>

\* the defaults Reporter.__init__ sets
DefaultFilters ==
    [convertToPython |-> FALSE, filterSourceType |-> "",
     suppressPrintouts |-> FALSE, suppressInfo |-> FALSE,
     suppressWarnings |-> FALSE, suppressErrors |-> FALSE,
     suppressResults |-> FALSE, suppressStackTrace |-> FALSE]

\* Reporter.globalFilters as the class body sets it
DefaultGlobalFilters ==
    [echoAllCommands |-> FALSE, lineNumbers |-> FALSE, stackTrace |-> FALSE]

(***************************************************************************)
(* Text conversions.                                                       *)
(***************************************************************************)
\* str.rfind( c ): the highest 0-based index of c in s, -1 when absent
RFind(s, c) ==
    LET hits == {i \in 1..Len(s) : s[i] = c}
    IN  IF hits = {} THEN -1 ELSE (CHOOSE i \in hits : \A j \in hits : j <= i) - 1

\* maya.cmds.encodeString: escapes the characters a MEL string literal cannot hold
RECURSIVE encodeString(_)
encodeString(s) ==
    IF s = <<>> THEN <<>>
    ELSE LET c == s[1]
             e == IF c = "NL" THEN <<"BSL", "n">>
                  ELSE IF c = "QUOTE" THEN <<"BSL", "QUOTE">>
                  ELSE IF c = "BSL" THEN <<"BSL", "BSL">>
                  ELSE <<c>>
         IN  e \o encodeString(Tail(s))

\* pymel.mel2py.mel2pyStr on a one-command MEL line "cmd;\n": "cmd()\n"
mel2pyStr(s) == SubSeq(s, 1, Len(s) - 2) \o <<"(", ")", "NL">>

\* the label cmdCallback prefixes to a message of the given type
\* (<<>> where the dict lookup raises KeyError)
TypeLabel(messageType) ==
    IF messageType = kInfo THEN Some(<<"I", "n", "f", "o">>)
    ELSE IF messageType = kWarning THEN Some(<<"W", "a", "r", "n", "i", "n", "g">>)
    ELSE IF messageType = kError THEN Some(<<"E", "r", "r", "o", "r">>)
    ELSE IF messageType = kResult THEN Some(<<"R", "e", "s", "u", "l", "t">>)
    ELSE None

(***************************************************************************)
(* cmdCallback, lines 240-279: the line built from a delivered message and *)
(* the new value of the global sourceType.  translated says whether         *)
(* mel2pyStr returned (TRUE) or raised (FALSE).                            *)
(***************************************************************************)
BuildLine(nativeMsg, messageType, srcType, translated) ==
    IF messageType = kHistory
    THEN IF RFind(nativeMsg, ";") = Len(nativeMsg) - 2
         THEN [sourceType |-> kMel,
               line |-> [messageType |-> messageType, sourceType |-> kMel,
                         nativeMsg |-> encodeString(nativeMsg),
                         convertedMsg |-> IF translated
                                          THEN Some(encodeString(mel2pyStr(nativeMsg)))
                                          ELSE None]]
         ELSE [sourceType |-> kPython,
               line |-> [messageType |-> messageType, sourceType |-> kPython,
                         nativeMsg |-> encodeString(nativeMsg),
                         convertedMsg |-> None]]
    ELSE LET label == TypeLabel(messageType)
             msg == IF label = None THEN nativeMsg
                    ELSE label[1] \o <<":", " ">> \o nativeMsg
             hash == <<"#", " ">> \o msg \o <<" ", "#", "NL">>
             slash == <<"/", "/", " ">> \o msg \o <<" ", "/", "/", "NL">>
         IN  [sourceType |-> srcType,
              line |-> [messageType |-> messageType, sourceType |-> srcType,
                        nativeMsg |-> encodeString(
                            IF label = None THEN nativeMsg
                            ELSE IF srcType = kMel THEN slash ELSE hash),
                        convertedMsg |-> IF label # None /\ srcType = kMel
                                         THEN Some(encodeString(hash))
                                         ELSE None]]

(***************************************************************************)
(* Reporter.                                                               *)
(***************************************************************************)
\* lineFilter without the convertToPython test of line 132
lineFilterAlwaysConverted(filters, line) ==
    IF /\ (filters.filterSourceType = "" \/ filters.filterSourceType = line.sourceType)
       /\ ~Get(filters, filterFlagNames[line.messageType + 1], FALSE)
    THEN IF line.convertedMsg # None
         THEN Some(line.convertedMsg[1])
         ELSE Some(line.nativeMsg)
    ELSE None

\* Reporter.lineFilter: <<>> (None) when the line is filtered out
lineFilter(filters, line) ==
    IF /\ (filters.filterSourceType = "" \/ filters.filterSourceType = line.sourceType)
       /\ ~Get(filters, filterFlagNames[line.messageType + 1], FALSE)
    THEN IF filters.convertToPython /\ line.convertedMsg # None
         THEN Some(line.convertedMsg[1])
         ELSE Some(line.nativeMsg)
    ELSE None

\* Reporter.refreshHistory, lines 137-141: the output string
RECURSIVE refreshOutput(_, _)
refreshOutput(filters, history) ==
    IF history = <<>> THEN <<>>
    ELSE LET out == lineFilter(filters, history[1])
         IN  (IF out = None THEN <<>> ELSE out[1]) \o refreshOutput(filters, Tail(history))

\* ReporterDict.__getitem__: the keys whose trailing segments are lookupBuf
Suffix(keyBuf, n) ==
    IF n >= Len(keyBuf) THEN keyBuf ELSE SubSeq(keyBuf, Len(keyBuf) - n + 1, Len(keyBuf))
Matches(lookupBuf) ==
    {key \in DOMAIN reporters : Suffix(key, Len(lookupBuf)) = lookupBuf}

\* scriptedCommand.doIt, lines 319-322: the name argument, or the default
NameOf(arg) == IF arg = <<>> THEN <<kPluginCmdName>> ELSE arg

(***************************************************************************)
(* Inputs of the reporter specification.                                   *)
(***************************************************************************)
\* layouts the host may have current when a scrollField is created
Parents == {"p", "q"}
\* the name argument of a create
CreateArgs == {<<"r">>}
\* the name argument of an edit or a query: none, a short name, a full path
LookupArgs == {<<>>, <<"r">>, <<"p", "r">>}
\* per-reporter filter flags given on a command line
FilterArgs ==
    {<<>>,
     [convertToPython |-> TRUE, filterSourceType |-> kMel, suppressInfo |-> TRUE],
     [convertToPython |-> FALSE, filterSourceType |-> "", suppressInfo |-> FALSE]}
\* global filter flags given on a command line
GlobalFilterArgs == {<<>>, [lineNumbers |-> FALSE]}
\* the other flag of an edit
EditFlags == {"none", "clear", "text", "cmdReporter"}
CmdReporterArg == <<"c">>
\* the flags of an edit command line
EditArgs ==
    {[filters |-> f, gfilters |-> <<>>, flag |-> "none"] : f \in FilterArgs}
    \cup {[filters |-> <<>>, gfilters |-> g, flag |-> "none"] : g \in GlobalFilterArgs}
    \cup {[filters |-> <<>>, gfilters |-> <<>>, flag |-> e] : e \in EditFlags}
    \cup {[filters |-> [convertToPython |-> TRUE, filterSourceType |-> kMel,
                        suppressInfo |-> TRUE],
           gfilters |-> [lineNumbers |-> FALSE], flag |-> "clear"]}
\* the flag of a query
QueryFlags == {"none", "convertToPython", "lineNumbers", "cmdReporter"}
\* messages the host delivers: <<messageType, nativeMsg>>
HostMessages ==
    {<<kHistory, <<"a", ";", "NL">>>>,
     <<kHistory, <<"b", "NL">>>>,
     <<kInfo, <<"i", "QUOTE">>>>}

(***************************************************************************)
(* The reporter's operations.  None of them touches the other parts.       *)
(***************************************************************************)
OnlyReporter == UNCHANGED <<varsStatic, varsInterceptor, varsCache, varsShell>>

InitReporter ==
    /\ reporters = <<>>
    /\ callbackState = TRUE
    /\ messageIdSet = FALSE
    /\ messageId = 0
    /\ sourceType = "None"
    /\ globalFilters = DefaultGlobalFilters
    /\ cmdReporter = None
    /\ hostCallbacks = {}
    /\ widgets = {}
    /\ lastOp = [kind |-> "load", outcome |-> "returned", target |-> None, text |-> None]
    /\ delivered = <<>>
    /\ createdAt = <<>>

\* scriptedCommand.doIt lines 377-382 with createCallback: installed says whether
\* addCommandOutputCallback returned (TRUE) or raised (FALSE).  When it raises,
\* createCallback's "return id" reads the unbound local id and doIt raises.
EnsureCallback(installed) ==
    IF messageIdSet
    THEN UNCHANGED <<messageIdSet, messageId, hostCallbacks>>
    ELSE IF installed
         THEN LET id == Cardinality(hostCallbacks) + 1
              IN  /\ messageIdSet' = TRUE
                  /\ messageId' = id
                  /\ hostCallbacks' = hostCallbacks \cup {id}
         ELSE /\ messageIdSet' = FALSE
              /\ UNCHANGED <<messageId, hostCallbacks>>
EnsureOutcome(installed) ==
    IF messageIdSet \/ installed THEN "returned" ELSE "raised"

\* appendHistory buffering a line only when the filters show it
appendHistoryShownOnly(reporter, line) ==
    IF lineFilter(reporter.filters, line) = None THEN reporter
    ELSE [reporter EXCEPT !.history = Append(@, line)]

\* Reporter.appendHistory (lines 146-157) on a reporter: the line is buffered; the
\* insertText command that follows changes the scrollField alone
appendHistory(reporter, line) ==
    [reporter EXCEPT !.history = Append(@, line)]

\* setFilters refreshing before the filters are updated
setFiltersStale(reporter, filters) ==
    [reporter |-> [reporter EXCEPT !.filters = Update(reporter.filters, filters)],
     text |-> refreshOutput(reporter.filters, reporter.history)]

\* Reporter.setFilters (lines 159-161) with refreshHistory: the reporter
\* afterwards, and the text of the scrollField -text command
setFilters(reporter, filters) ==
    LET newFilters == Update(reporter.filters, filters)
    IN  [reporter |-> [reporter EXCEPT !.filters = newFilters],
         text |-> refreshOutput(newFilters, reporter.history)]

\* doIt, create branch (lines 342-355, 371-382) with Reporter.__init__.  The host
\* puts the scrollField under its current layout; the command fails, and
\* executeCommandStringResult raises between lines 119 and 121, when the name is
\* not unique there.
DoItCreate(arg, parent, filters, installed) ==
    LET name == NameOf(arg)
        path == <<parent>> \o name
    IN  /\ IF path \in widgets
           THEN /\ callbackState' = FALSE
                /\ lastOp' = [kind |-> "create", outcome |-> "raised", target |-> None,
                              text |-> None]
                /\ UNCHANGED <<reporters, messageIdSet, messageId, sourceType,
                               globalFilters, cmdReporter, hostCallbacks, widgets,
                               delivered, createdAt>>
           ELSE /\ callbackState' = TRUE
                /\ widgets' = widgets \cup {path}
                /\ reporters' = reporters @@
                       (path :> [filters |-> Update(DefaultFilters, filters),
                                 history |-> <<>>])
                /\ createdAt' = createdAt @@ (path :> Len(delivered))
                /\ EnsureCallback(installed)
                /\ lastOp' = [kind |-> "create", outcome |-> EnsureOutcome(installed),
                              target |-> None, text |-> None]
                /\ UNCHANGED <<sourceType, globalFilters, cmdReporter, delivered>>
        /\ OnlyReporter

\* doIt, edit and query branches, when reporters[name] raises KeyError
DoItUnknown(arg, kind) ==
    /\ Matches(NameOf(arg)) = {}
    /\ lastOp' = [kind |-> kind, outcome |-> "raised", target |-> None, text |-> None]
    /\ UNCHANGED <<reporters, callbackState, messageIdSet, messageId, sourceType,
                   globalFilters, cmdReporter, hostCallbacks, widgets, delivered,
                   createdAt>>
    /\ OnlyReporter

\* doIt, edit branch (lines 342-369, 375-382) on the reporter the lookup finds;
\* ReporterDict.__getitem__ returns the first match in the dict's order, any of them.
\* Reporter.setGlobalFilters edits the host reporter Reporter.cmdReporter names; the
\* host command fails, and executeCommand raises between lines 113 and 115, when
\* no reporter was named yet.  clear and text change the scrollField alone.
DoItEdit(arg, path, filters, gfilters, flag, installed) ==
    LET set == setFilters(reporters[path], filters)
        refreshed == DOMAIN filters # {}
        globalFails == DOMAIN gfilters # {} /\ cmdReporter = None
        executes == refreshed \/ DOMAIN gfilters # {} \/ flag \in {"clear", "text"}
    IN  /\ path \in Matches(NameOf(arg))
        /\ reporters' = IF refreshed THEN [reporters EXCEPT ![path] = set.reporter]
                        ELSE reporters
        /\ IF globalFails
           THEN /\ callbackState' = FALSE
                /\ lastOp' = [kind |-> "edit", outcome |-> "raised", target |-> Some(path),
                              text |-> IF refreshed THEN Some(set.text) ELSE None]
                /\ UNCHANGED <<globalFilters, cmdReporter, messageIdSet, messageId,
                               hostCallbacks>>
           ELSE /\ callbackState' = IF executes THEN TRUE ELSE callbackState
                /\ globalFilters' = Update(globalFilters, gfilters)
                /\ cmdReporter' = IF flag = "cmdReporter" THEN Some(CmdReporterArg)
                                  ELSE cmdReporter
                /\ EnsureCallback(installed)
                /\ lastOp' = [kind |-> "edit", outcome |-> EnsureOutcome(installed),
                              target |-> Some(path),
                              text |-> IF refreshed THEN Some(set.text) ELSE None]
        /\ UNCHANGED <<sourceType, widgets, delivered, createdAt>>
        /\ OnlyReporter

\* doIt, query branch (lines 326-339, 377-382): a filter flag returns at line 331
\* or 336, before the callback is looked at.
DoItQuery(arg, path, flag, installed) ==
    LET early == flag \in DOMAIN DefaultFilters \cup DOMAIN DefaultGlobalFilters
    IN  /\ path \in Matches(NameOf(arg))
        /\ IF early
           THEN /\ UNCHANGED <<messageIdSet, messageId, hostCallbacks>>
                /\ lastOp' = [kind |-> "query", outcome |-> "returned",
                              target |-> None, text |-> None]
           ELSE /\ EnsureCallback(installed)
                /\ lastOp' = [kind |-> "query", outcome |-> EnsureOutcome(installed),
                              target |-> None, text |-> None]
        /\ UNCHANGED <<reporters, callbackState, sourceType, globalFilters, cmdReporter,
                       widgets, delivered, createdAt>>
        /\ OnlyReporter

\* cmdCallback: the host calls it, once per message, while a callback is installed.
\* Each appendHistory ends in executeCommand, which leaves callbackState True.
CmdCallback(message, translated) ==
    LET built == BuildLine(message[2], message[1], sourceType, translated)
    IN  /\ hostCallbacks # {}
        /\ IF ~callbackState
           THEN UNCHANGED <<reporters, callbackState, sourceType, delivered>>
           ELSE /\ Len(delivered) < MaxDelivered
                /\ sourceType' = built.sourceType
                /\ reporters' = [path \in DOMAIN reporters |->
                                    appendHistory(reporters[path], built.line)]
                /\ callbackState' = TRUE
                /\ delivered' = Append(delivered, built.line)
        /\ lastOp' = [kind |-> "callback", outcome |-> "returned", target |-> None,
                      text |-> None]
        /\ UNCHANGED <<messageIdSet, messageId, globalFilters, cmdReporter,
                       hostCallbacks, widgets, createdAt>>
        /\ OnlyReporter

\* addCommandOutputCallback is called, and may fail, only while no callback is set
InstallOutcomes == IF messageIdSet THEN {TRUE} ELSE BOOLEAN
\* mel2pyStr is called, and may raise, only on a MEL history line (lines 243-248)
TranslateOutcomes(message) ==
    IF message[1] = kHistory /\ RFind(message[2], ";") = Len(message[2]) - 2
    THEN BOOLEAN ELSE {FALSE}

NextReporter ==
    \/ \E arg \in CreateArgs, parent \in Parents, filters \in FilterArgs,
          installed \in InstallOutcomes :
           DoItCreate(arg, parent, filters, installed)
    \/ \E arg \in LookupArgs, kind \in {"edit", "query"} : DoItUnknown(arg, kind)
    \/ \E arg \in LookupArgs, path \in DOMAIN reporters, e \in EditArgs,
          installed \in InstallOutcomes :
           DoItEdit(arg, path, e.filters, e.gfilters, e.flag, installed)
    \/ \E arg \in LookupArgs, path \in DOMAIN reporters, flag \in QueryFlags,
          installed \in InstallOutcomes :
           DoItQuery(arg, path, flag, installed)
    \/ \E message \in HostMessages : \E translated \in TranslateOutcomes(message) :
           CmdCallback(message, translated)

(***************************************************************************)
(* util/__init__.py: Singleton and metaStatic.                             *)
(*                                                                         *)
(* The classes of the model: A(Singleton), B(A), and D, a class whose      *)
(* metaclass is metaStatic and whose base is dict.                         *)
(***************************************************************************)
Classes == {"A", "B", "D"}
StaticClasses == {"D"}

EmptyDict == [k \in {} |-> 0]
Keys == {"x", "y"}
\* the values a D is instantiated with: <<>> is "no value"
InitValues == {None, Some(EmptyDict), Some("x" :> 1), Some("y" :> 2)}
ItemValues == {1, 2}
\* the dict methods metaStatic's __getattribute__ refuses
removed == {"clear", "update", "pop", "popitem"}

OnlyStatic == UNCHANGED <<varsReporter, varsInterceptor, varsCache, varsShell>>

InitStatic ==
    /\ theInstance = [cls \in Classes |-> None]
    /\ objects = <<>>
    /\ returned = [cls \in Classes |-> <<>>]
    /\ lastCall = [op |-> "none", cls |-> "D", outcome |-> "ok", before |-> EmptyDict]

\* __new__ without the test of line 36
SingletonNewAlways(cls) ==
    [id |-> Len(objects) + 1,
     theInstance |-> [theInstance EXCEPT ![cls] = Some(Len(objects) + 1)],
     objects |-> Append(objects, [cls |-> cls, content |-> EmptyDict])]

\* Singleton.__new__: the instance returned, and cls.__dict__ and the heap after
SingletonNew(cls) ==
    IF theInstance[cls] = None
    THEN [id |-> Len(objects) + 1,
          theInstance |-> [theInstance EXCEPT ![cls] = Some(Len(objects) + 1)],
          objects |-> Append(objects, [cls |-> cls, content |-> EmptyDict])]
    ELSE [id |-> theInstance[cls][1], theInstance |-> theInstance, objects |-> objects]

\* __init__ without the test of line 93
StaticInitUnguarded(content, value) ==
    IF value # None
    THEN [outcome |-> "ok", content |-> Update(content, value[1])]
    ELSE [outcome |-> "ok", content |-> content]

\* metaStatic's __init__ (lines 89-99) on an instance holding content
StaticInit(content, value) ==
    IF value # None
    THEN IF content = EmptyDict
         THEN [outcome |-> "ok", content |-> Update(content, value[1])]
         ELSE [outcome |-> "TypeError", content |-> content]
    ELSE [outcome |-> "ok", content |-> content]

\* cls( value ): type.__call__ runs __new__, then __init__ on what it returned
Instantiate(cls, value) ==
    LET new == SingletonNew(cls)
        before == new.objects[new.id].content
        init == IF cls \in StaticClasses THEN StaticInit(before, value)
                ELSE [outcome |-> "ok", content |-> before]
    IN  /\ Len(returned[cls]) < MaxInstantiations
        /\ cls \notin StaticClasses => value = None
        /\ theInstance' = new.theInstance
        /\ objects' = [new.objects EXCEPT ![new.id].content = init.content]
        /\ returned' = IF init.outcome = "ok"
                       THEN [returned EXCEPT ![cls] = Append(@, new.id)]
                       ELSE returned
        /\ lastCall' = [op |-> IF value = None THEN "instantiate" ELSE "initialise",
                        cls |-> cls, outcome |-> init.outcome, before |-> before]
        /\ OnlyStatic

\* the content of the one D instance
Content == objects[theInstance["D"][1]].content

\* d[key] = val: metaStatic's __setitem__ (lines 110-111)
SetItem(key, val) ==
    /\ theInstance["D"] # None
    /\ lastCall' = [op |-> "setitem", cls |-> "D", outcome |-> "TypeError", before |-> Content]
    /\ UNCHANGED <<theInstance, objects, returned>>
    /\ OnlyStatic

\* d.clear, d.update, d.pop, d.popitem: metaStatic's __getattribute__ (lines 101-108)
GetRemoved(name) ==
    /\ theInstance["D"] # None
    /\ name \in removed
    /\ lastCall' = [op |-> name, cls |-> "D", outcome |-> "AttributeError", before |-> Content]
    /\ UNCHANGED <<theInstance, objects, returned>>
    /\ OnlyStatic

\* del d[key]: newdict (line 114) defines no __delitem__, so dict's runs
DelItem(key) ==
    /\ theInstance["D"] # None
    /\ objects' = [objects EXCEPT ![theInstance["D"][1]].content =
                       [k \in DOMAIN Content \ {key} |-> Content[k]]]
    /\ lastCall' = [op |-> "delitem", cls |-> "D",
                    outcome |-> IF key \in DOMAIN Content THEN "ok" ELSE "KeyError",
                    before |-> Content]
    /\ UNCHANGED <<theInstance, returned>>
    /\ OnlyStatic

\* d.setdefault( key, val ): "setdefault" is not in remove (line 102), so
\* __getattribute__ hands out dict's method, which does not go through __setitem__
SetDefault(key, val) ==
    /\ theInstance["D"] # None
    /\ "setdefault" \notin removed
    /\ objects' = [objects EXCEPT ![theInstance["D"][1]].content =
                       IF key \in DOMAIN Content THEN Content
                       ELSE Content @@ (key :> val)]
    /\ lastCall' = [op |-> "setdefault", cls |-> "D", outcome |-> "ok", before |-> Content]
    /\ UNCHANGED <<theInstance, returned>>
    /\ OnlyStatic

NextStatic ==
    \/ \E cls \in Classes, value \in InitValues : Instantiate(cls, value)
    \/ \E key \in Keys, val \in ItemValues : SetItem(key, val)
    \/ \E name \in removed : GetRemoved(name)
    \/ \E key \in Keys : DelItem(key)
    \/ \E key \in Keys, val \in ItemValues : SetDefault(key, val)

(***************************************************************************)
(* util/__init__.py: ModuleInterceptor.                                    *)
(*                                                                         *)
(* An attribute value is <<owner, name>>: the module's own value of "a" is *)
(* <<"module", "a">>.  An exception is [type, msg].                        *)
(***************************************************************************)
\* what plain lookup finds on the interceptor itself: the instance attributes set
\* in __init__ (lines 147-148) and the class's docstring (lines 132-145)
OwnAttrs == {"module", "callback", "__doc__"}
\* names looked up on the interceptor
Attrs == {"a", "b", "c", "callback", "__doc__"}
\* what the wrapped module defines when it is imported (a module always has __doc__)
InitModule == {"__doc__", "a"}
\* what a call of the callback does: return, set the attribute on the module and
\* return, or raise
CallbackOutcomes == {"return", "define", "ValueError", "AttributeError", "KeyboardInterrupt"}

ModuleValue(attr) == <<"module", attr>>
OwnValue(attr) == <<"interceptor", attr>>
\* the AttributeError getattr( self.module, attr ) raises
OriginalError(attr) == [type |-> "AttributeError", msg |-> <<"module", attr>>]
\* the error the callback raises
CallbackError(outcome, attr) == [type |-> outcome, msg |-> <<"callback", attr>>]

Returns(value) == [kind |-> "return", value |-> value, exc |-> None]
Raises(exc) == [kind |-> "raise", value |-> None, exc |-> Some(exc)]

OnlyInterceptor == UNCHANGED <<varsReporter, varsStatic, varsCache, varsShell>>

InitInterceptor ==
    /\ moduleAttrs = [attr \in InitModule |-> ModuleValue(attr)]
    /\ callbackCalls = <<>>
    /\ lookup = [attr |-> "", onModule |-> FALSE, outcome |-> "none", called |-> FALSE,
                 result |-> Returns(None)]

\* __getattr__ calling the callback before it asks the module
ModuleGetattrCallbackFirst(module, attr, outcome) ==
    IF outcome \in {"return", "define"}
    THEN LET after == IF outcome = "define" /\ attr \notin DOMAIN module
                      THEN module @@ (attr :> ModuleValue(attr)) ELSE module
         IN  [result |-> IF attr \in DOMAIN module THEN Returns(Some(module[attr]))
                         ELSE Returns(None),
              called |-> TRUE, module |-> after]
    ELSE [result |-> Raises(OriginalError(attr)), called |-> TRUE, module |-> module]

\* __getattr__ letting the callback's error through
ModuleGetattrReraise(module, attr, outcome) ==
    IF attr \in DOMAIN module
    THEN [result |-> Returns(Some(module[attr])), called |-> FALSE, module |-> module]
    ELSE IF outcome = "return"
         THEN [result |-> Returns(None), called |-> TRUE, module |-> module]
         ELSE IF outcome = "define"
              THEN [result |-> Returns(None), called |-> TRUE,
                    module |-> module @@ (attr :> ModuleValue(attr))]
              ELSE [result |-> Raises(CallbackError(outcome, attr)), called |-> TRUE,
                    module |-> module]

\* ModuleInterceptor.__getattr__ (lines 149-156): the outcome, whether the callback
\* was called, and the module's namespace afterwards.  A callback that returns
\* lets __getattr__ fall off its end and return None.
ModuleGetattr(module, attr, outcome) ==
    IF attr \in DOMAIN module
    THEN [result |-> Returns(Some(module[attr])), called |-> FALSE, module |-> module]
    ELSE IF outcome = "return"
         THEN [result |-> Returns(None), called |-> TRUE, module |-> module]
         ELSE IF outcome = "define"
              THEN [result |-> Returns(None), called |-> TRUE,
                    module |-> module @@ (attr :> ModuleValue(attr))]
              ELSE [result |-> Raises(OriginalError(attr)), called |-> TRUE,
                    module |-> module]

\* interceptor.attr: Python calls __getattr__ only when plain lookup finds nothing
GetAttr(attr, outcome) ==
    LET got == IF attr \in OwnAttrs
               THEN [result |-> Returns(Some(OwnValue(attr))), called |-> FALSE,
                     module |-> moduleAttrs]
               ELSE ModuleGetattr(moduleAttrs, attr, outcome)
    IN  /\ got.called => Len(callbackCalls) < MaxCalls
        /\ moduleAttrs' = got.module
        /\ callbackCalls' = IF got.called THEN Append(callbackCalls, attr)
                            ELSE callbackCalls
        /\ lookup' = [attr |-> attr, onModule |-> attr \in DOMAIN moduleAttrs,
                      outcome |-> IF got.called THEN outcome ELSE "none",
                      called |-> got.called, result |-> got.result]
        /\ OnlyInterceptor

NextInterceptor ==
    \E attr \in Attrs, outcome \in CallbackOutcomes : GetAttr(attr, outcome)

(***************************************************************************)
(* util/__init__.py: cacheProperty.                                        *)
(*                                                                         *)
(* A Python value is <<>> (None) or <<n>>; the cached attribute of an      *)
(* instance is <<>> (absent) or <<value>>.                                 *)
(***************************************************************************)
Instances == {"o1", "o2"}
\* what the getter may return, and what the property may be set to
PyValues == {None, Some(0), Some(1)}

OnlyCache == UNCHANGED <<varsReporter, varsStatic, varsInterceptor, varsShell>>

InitCache ==
    /\ cache = [obj \in Instances |-> None]
    /\ getterCalls = [obj \in Instances |-> 0]
    /\ produced = [obj \in Instances |-> FALSE]
    /\ nullSet = [obj \in Instances |-> FALSE]
    /\ lastRead = [kind |-> "none", obj |-> "o1", val |-> None, called |-> FALSE,
                   before |-> None, producedBefore |-> FALSE, nullSetBefore |-> FALSE]

\* fget testing "if not val" where line 186 tests "if val is None"
fgetFalsy(stored, fresh) ==
    LET val == IF stored # None THEN stored[1] ELSE None
    IN  IF val = None \/ val = Some(0)
        THEN [val |-> fresh, called |-> TRUE, stored |-> Some(fresh)]
        ELSE [val |-> val, called |-> FALSE, stored |-> stored]

\* fget (lines 179-191) on an instance whose cached attribute is stored, with a
\* getter that would return fresh: the value returned, whether the getter was
\* called, and the cached attribute afterwards
fget(stored, fresh) ==
    LET val == IF stored # None THEN stored[1] ELSE None
    IN  IF val = None
        THEN [val |-> fresh, called |-> TRUE, stored |-> Some(fresh)]
        ELSE [val |-> val, called |-> FALSE, stored |-> stored]

\* fset (lines 193-195)
fset(stored, val) == Some(val)

\* obj.prop
Read(obj, fresh) ==
    LET got == fget(cache[obj], fresh)
    IN  /\ got.called => getterCalls[obj] < MaxCalls
        /\ cache' = [cache EXCEPT ![obj] = got.stored]
        /\ getterCalls' = [getterCalls EXCEPT ![obj] = IF got.called THEN @ + 1 ELSE @]
        /\ produced' = [produced EXCEPT ![obj] = @ \/ (got.called /\ fresh # None)]
        /\ nullSet' = [nullSet EXCEPT ![obj] = IF got.called THEN fresh = None ELSE @]
        /\ lastRead' = [kind |-> "get", obj |-> obj, val |-> got.val,
                        called |-> got.called, before |-> cache[obj],
                        producedBefore |-> produced[obj],
                        nullSetBefore |-> nullSet[obj]]
        /\ OnlyCache

\* obj.prop = val
Write(obj, val) ==
    /\ cache' = [cache EXCEPT ![obj] = fset(@, val)]
    /\ nullSet' = [nullSet EXCEPT ![obj] = (val = None)]
    /\ lastRead' = [kind |-> "set", obj |-> obj, val |-> val, called |-> FALSE,
                    before |-> cache[obj], producedBefore |-> produced[obj],
                    nullSetBefore |-> nullSet[obj]]
    /\ UNCHANGED <<getterCalls, produced>>
    /\ OnlyCache

NextCache ==
    \/ \E obj \in Instances, fresh \in PyValues : Read(obj, fresh)
    \/ \E obj \in Instances, val \in PyValues : Write(obj, val)

(***************************************************************************)
(* pymel/util/shell.py: appendEnv, prependEnv, getEnvs, putEnv.            *)
(***************************************************************************)
\* os.path.pathsep on osx and linux
pathsep == ":"

\* the environment variables named in calls
EnvNames == {"P", "Q"}
\* the value argument of appendEnv and prependEnv: "a", "b", "" and "a:b"
EnvValues == {<<"a">>, <<"b">>, <<>>, <<"a", pathsep, "b">>}
\* the value argument of putEnv: a string, or a list of strings
PutEnvArgs ==
    {[iterable |-> FALSE, value |-> <<"b">>],
     [iterable |-> TRUE, value |-> << <<"b">>, <<"c">> >>]}

\* str.split(sep) for a one-character sep: the pieces between the separators,
\* empty pieces included; the split of "" is [""]
RECURSIVE split(_, _)
split(text, sep) ==
    IF \A i \in 1..Len(text) : text[i] # sep
    THEN <<text>>
    ELSE LET first == CHOOSE i \in 1..Len(text) :
                          /\ text[i] = sep
                          /\ \A j \in 1..(i - 1) : text[j] # sep
         IN  <<SubSeq(text, 1, first - 1)>>
                 \o split(SubSeq(text, first + 1, Len(text)), sep)

\* sep.join(list)
RECURSIVE join(_, _)
join(list, sep) ==
    IF list = <<>> THEN <<>>
    ELSE IF Len(list) = 1 THEN list[1]
    ELSE list[1] \o <<sep>> \o join(Tail(list), sep)

\* "value in list"
Contains(list, value) == \E i \in 1..Len(list) : list[i] = value

OnlyShell == UNCHANGED <<varsReporter, varsStatic, varsInterceptor, varsCache>>

InitShell ==
    /\ environ = [env \in EnvNames |-> None]
    /\ envCalls = 0
    /\ lastEnv = [op |-> "none", env |-> "P", value |-> <<>>,
                  before |-> [env \in EnvNames |-> None]]
    /\ prevEnv = [op |-> "none", env |-> "P", value |-> <<>>]

\* appendEnv (lines 7-19): os.environ after appendEnv(env, value)
appendEnv(environment, env, value) ==
    IF environment[env] = None
    THEN [environment EXCEPT ![env] = Some(value)]
    ELSE LET splitEnv == split(environment[env][1], pathsep)
         IN  IF ~Contains(splitEnv, value)
             THEN [environment EXCEPT
                       ![env] = Some(join(Append(splitEnv, value), pathsep))]
             ELSE environment

\* prependEnv appending where line 34 inserts at index 0
prependEnvAtEnd(environment, env, value) ==
    IF environment[env] = None
    THEN [environment EXCEPT ![env] = Some(value)]
    ELSE LET splitEnv == split(environment[env][1], pathsep)
         IN  IF ~Contains(splitEnv, value)
             THEN [environment EXCEPT
                       ![env] = Some(join(Append(splitEnv, value), pathsep))]
             ELSE environment

\* prependEnv (lines 24-36): os.environ after prependEnv(env, value)
prependEnv(environment, env, value) ==
    IF environment[env] = None
    THEN [environment EXCEPT ![env] = Some(value)]
    ELSE LET splitEnv == split(environment[env][1], pathsep)
         IN  IF ~Contains(splitEnv, value)
             THEN [environment EXCEPT
                       ![env] = Some(join(<<value>> \o splitEnv, pathsep))]
             ELSE environment

\* getEnvs (lines 42-54) with the default default: the variable split into a list
getEnvs(environment, env) ==
    IF environment[env] # None THEN split(environment[env][1], pathsep) ELSE <<>>

\* putEnv (lines 57-62): os.environ after putEnv(env, value), where iterable is
\* what _isIterable(value) answers
putEnv(environment, env, value, iterable) ==
    [environment EXCEPT ![env] = Some(IF iterable THEN join(value, pathsep) ELSE value)]

\* the bookkeeping of a call
Called(op, env, value) ==
    /\ envCalls < MaxEnvCalls
    /\ envCalls' = envCalls + 1
    /\ lastEnv' = [op |-> op, env |-> env, value |-> value, before |-> environ]
    /\ prevEnv' = [op |-> lastEnv.op, env |-> lastEnv.env, value |-> lastEnv.value]
    /\ OnlyShell

AppendEnv(env, value) ==
    /\ environ' = appendEnv(environ, env, value)
    /\ Called("appendEnv", env, value)

PrependEnv(env, value) ==
    /\ environ' = prependEnv(environ, env, value)
    /\ Called("prependEnv", env, value)

PutEnv(env, arg) ==
    /\ environ' = putEnv(environ, env, arg.value, arg.iterable)
    /\ Called("putEnv", env, arg.value)

NextShell ==
    \/ \E env \in EnvNames, value \in EnvValues : AppendEnv(env, value)
    \/ \E env \in EnvNames, value \in EnvValues : PrependEnv(env, value)
    \/ \E env \in EnvNames, arg \in PutEnvArgs : PutEnv(env, arg)

(***************************************************************************)
(* Specifications.                                                         *)
(***************************************************************************)
Init == InitReporter /\ InitStatic /\ InitInterceptor /\ InitCache /\ InitShell

Spec == Init /\ [][NextReporter]_vars
SpecStatic == Init /\ [][NextStatic]_vars
SpecInterceptor == Init /\ [][NextInterceptor]_vars
SpecCache == Init /\ [][NextCache]_vars
SpecShell == Init /\ [][NextShell]_vars

(***************************************************************************)
(* Claims about the reporter (specification Spec).                         *)
(***************************************************************************)
\* C1: every registered reporter's history is exactly the lines cmdCallback
\* built, while callbackState was True, since the reporter was created: all of
\* them, each once, in delivery order, whatever the reporter's filters show.
C1_HistoryIsDeliveredSinceCreation ==
    \A path \in DOMAIN reporters :
        reporters[path].history = SubSeq(delivered, createdAt[path] + 1, Len(delivered))

\* C1 witness: two reporters created at different times, the later one after a
\* delivery, and one holds a line its filters do not show.
C1_Witness ==
    \E p1, p2 \in DOMAIN reporters :
        /\ createdAt[p1] < createdAt[p2]
        /\ Len(reporters[p2].history) >= 1
        /\ Len(reporters[p1].history) >= 2
        /\ \E i \in 1..Len(reporters[p1].history) :
               lineFilter(reporters[p1].filters, reporters[p1].history[i]) = None

\* the text the scrollField is to show for a history under filters: the shown
\* form of each line the filters let through, in order
RECURSIVE Concat(_)
Concat(parts) == IF parts = <<>> THEN <<>> ELSE parts[1] \o Concat(Tail(parts))
Shown(filters, history) ==
    LET kept == SelectSeq(history, LAMBDA line : lineFilter(filters, line) # None)
    IN  Concat([i \in 1..Len(kept) |-> lineFilter(filters, kept[i])[1]])

\* C2: after an edit that changes per-reporter filters, the text setFilters put
\* in the reporter's scrollField is the concatenation, in history order, of
\* lineFilter under the new filters over every buffered line, the rejected lines
\* adding nothing.
C2_RefreshShowsFilteredHistory ==
    (lastOp.kind = "edit" /\ lastOp.text # None) =>
        LET reporter == reporters[lastOp.target[1]]
        IN  lastOp.text[1] = Shown(reporter.filters, reporter.history)

\* C2 witness: setFilters ran on a reporter with two buffered lines, one shown
\* and one rejected under the new filters.
C2_Witness ==
    /\ lastOp.kind = "edit" /\ lastOp.text # None
    /\ LET reporter == reporters[lastOp.target[1]]
       IN  /\ Len(reporter.history) = 2
           /\ \E i, j \in 1..2 :
                  /\ lineFilter(reporter.filters, reporter.history[i]) = None
                  /\ lineFilter(reporter.filters, reporter.history[j]) # None
           /\ reporter.filters # DefaultFilters

\* C3: every invocation of the command that returns without raising leaves a
\* command-output callback registered with the host.
C3_ReturnLeavesCallback ==
    (lastOp.kind \in {"create", "edit", "query"} /\ lastOp.outcome = "returned")
        => hostCallbacks # {}

\* the form the claim gives a shown line: converted when the reporter converts to
\* Python and the line has a converted form, native otherwise
ClaimedForm(filters, line) ==
    IF filters.convertToPython /\ line.convertedMsg # None
    THEN line.convertedMsg[1] ELSE line.nativeMsg

\* a MEL history line whose translation failed
FailedTranslation(line) ==
    line.messageType = kHistory /\ line.sourceType = kMel /\ line.convertedMsg = None

\* C4: a buffered line that is shown is shown converted exactly when the
\* reporter's convertToPython is on and the line has a converted form, and
\* native otherwise; so is the text a filter edit puts in the scrollField; and a
\* MEL history line whose translation failed is buffered by every reporter that
\* existed when it was delivered and is shown native.
C4_ConvertedIffOnAndExists ==
    /\ \A path \in DOMAIN reporters :
           LET reporter == reporters[path]
           IN  \A i \in 1..Len(reporter.history) :
                   LET line == reporter.history[i]
                       out == lineFilter(reporter.filters, line)
                   IN  out # None =>
                           /\ out[1] = ClaimedForm(reporter.filters, line)
                           /\ (out[1] = line.nativeMsg) =
                                  ~(reporter.filters.convertToPython /\ line.convertedMsg # None)
    /\ (lastOp.kind = "edit" /\ lastOp.text # None) =>
           LET reporter == reporters[lastOp.target[1]]
               kept == SelectSeq(reporter.history,
                                 LAMBDA line : lineFilter(reporter.filters, line) # None)
           IN  lastOp.text[1] =
                   Concat([i \in 1..Len(kept) |-> ClaimedForm(reporter.filters, kept[i])])
    /\ \A path \in DOMAIN reporters : \A i \in 1..Len(delivered) :
           (i > createdAt[path] /\ FailedTranslation(delivered[i])) =>
               /\ i - createdAt[path] <= Len(reporters[path].history)
               /\ reporters[path].history[i - createdAt[path]] = delivered[i]
               /\ lineFilter(reporters[path].filters, delivered[i])
                      \in {None, Some(delivered[i].nativeMsg)}

\* C4 witness: a filter edit turned convertToPython on for a reporter holding a
\* MEL history line with a converted form and one whose translation failed, and
\* both are shown.
C4_Witness ==
    /\ lastOp.kind = "edit" /\ lastOp.text # None
    /\ LET reporter == reporters[lastOp.target[1]]
       IN  /\ reporter.filters.convertToPython
           /\ Len(reporter.history) = 2
           /\ FailedTranslation(reporter.history[1])
           /\ reporter.history[2].convertedMsg # None
           /\ \A i \in 1..2 : lineFilter(reporter.filters, reporter.history[i]) # None

(***************************************************************************)
(* Claims about Singleton and metaStatic (specification SpecStatic).       *)
(***************************************************************************)
\* C5: every instantiation of a class derived from Singleton returns the
\* instance the first one returned, and at most one object of the class exists.
C5_OneInstancePerClass ==
    \A cls \in Classes :
        /\ \A i \in 1..Len(returned[cls]) : returned[cls][i] = returned[cls][1]
        /\ Cardinality({id \in 1..Len(objects) : objects[id].cls = cls}) <= 1

\* C5 witness: a class and its subclass were both instantiated, the subclass
\* three times, and so was the dict class, with and without a value.
C5_Witness ==
    /\ Len(returned["A"]) >= 2
    /\ Len(returned["B"]) >= 3
    /\ Len(returned["D"]) >= 2
    /\ Content # EmptyDict

\* C6: once the instance of a metaStatic dict class holds a non-empty value, no
\* operation on the instance changes its content.
C6_ContentNeverChanges ==
    (theInstance["D"] # None /\ lastCall.cls = "D" /\ lastCall.before # EmptyDict)
        => Content = lastCall.before

\* C7: initialising a metaStatic instance with a value while it holds content
\* raises TypeError and leaves the content as it was; instantiating with no
\* value does not raise and leaves the content as it was.
C7_InitialisedOnce ==
    /\ (lastCall.cls = "D" /\ lastCall.op = "initialise" /\ lastCall.before # EmptyDict)
           => (lastCall.outcome = "TypeError" /\ Content = lastCall.before)
    /\ (lastCall.cls = "D" /\ lastCall.op = "instantiate")
           => (lastCall.outcome = "ok" /\ Content = lastCall.before)

\* C7 witness: the instance held content, was instantiated again with no value,
\* and was then initialised with another value.
C7_Witness ==
    /\ lastCall.cls = "D" /\ lastCall.op = "initialise"
    /\ lastCall.before # EmptyDict
    /\ Len(returned["D"]) >= 2

(***************************************************************************)
(* Claims about ModuleInterceptor (specification SpecInterceptor).         *)
(***************************************************************************)
\* C8 as stated: for an attribute the module has, the lookup returns the
\* module's value and the callback is not called; the callback is called only
\* for an attribute the module lacks.
C8_ModuleValueReturned ==
    /\ lookup.called => ~lookup.onModule
    /\ lookup.onModule =>
           (~lookup.called /\ lookup.result = Returns(Some(ModuleValue(lookup.attr))))

\* C8 amended: the same, for an attribute plain lookup does not find on the
\* interceptor itself; one it finds there is returned from there, and the
\* callback is not called.
C8_ModuleValueReturnedUnlessOwn ==
    /\ lookup.called => (~lookup.onModule /\ lookup.attr \notin OwnAttrs)
    /\ (lookup.onModule /\ lookup.attr \notin OwnAttrs) =>
           (~lookup.called /\ lookup.result = Returns(Some(ModuleValue(lookup.attr))))
    /\ lookup.attr \in OwnAttrs =>
           (~lookup.called /\ lookup.result = Returns(Some(OwnValue(lookup.attr))))
    /\ \A i \in 1..Len(callbackCalls) : callbackCalls[i] \notin InitModule

\* C8 witness: an attribute the callback was once called for is now on the
\* module and was looked up again.
C8_Witness ==
    /\ lookup.onModule /\ lookup.attr \notin OwnAttrs
    /\ \E i \in 1..Len(callbackCalls) : callbackCalls[i] = lookup.attr

\* C9: when the attribute is missing from the module and the callback raises,
\* whatever it raises, the lookup raises the AttributeError of the module lookup.
C9_OriginalAttributeError ==
    (lookup.called /\ lookup.outcome \notin {"return", "define"}) =>
        /\ lookup.result = Raises(OriginalError(lookup.attr))
        /\ lookup.result # Raises(CallbackError(lookup.outcome, lookup.attr))

\* C9 witness: the callback raised an AttributeError of its own.
C9_Witness ==
    lookup.called /\ lookup.outcome = "AttributeError" /\ lookup.result.kind = "raise"

(***************************************************************************)
(* Claims about cacheProperty (specification SpecCache).                   *)
(***************************************************************************)
NonNull(stored) == stored # None /\ stored[1] # None

\* C10 as stated: once the getter has produced a non-null value for an instance,
\* no later read of the property on that instance calls the getter.
C10_GetterCalledOnce ==
    (lastRead.kind = "get" /\ lastRead.producedBefore) => ~lastRead.called

\* C10 amended: a read made while the stored value is non-null returns it
\* without calling the getter; so, once the getter has produced a non-null value
\* or the property was set to one, the getter is not called until the property
\* is set to None.
C10_GetterNotCalledWhileNonNull ==
    /\ (lastRead.kind = "get" /\ NonNull(lastRead.before)) =>
           /\ ~lastRead.called
           /\ lastRead.val = lastRead.before[1]
           /\ cache[lastRead.obj] = lastRead.before
    /\ (lastRead.kind = "get" /\ lastRead.producedBefore /\ ~lastRead.nullSetBefore)
           => ~lastRead.called
    /\ \A obj \in Instances : (produced[obj] /\ ~nullSet[obj]) => NonNull(cache[obj])

\* C10 witness: the getter ran once for an instance, and a later read returned
\* the stored non-null (and falsy) value 0 without calling it, while the getter
\* has run twice for another instance.
C10_Witness ==
    /\ lastRead.kind = "get" /\ ~lastRead.called
    /\ lastRead.producedBefore
    /\ getterCalls[lastRead.obj] = 1
    /\ lastRead.val = Some(0)
    /\ \E other \in Instances : getterCalls[other] >= 2

(***************************************************************************)
(* Claims about the environment helpers (specification SpecShell).         *)
(***************************************************************************)
\* the list the variable of the last call held before the call
OldList == getEnvs(lastEnv.before, lastEnv.env)
\* the last call repeats the call before it
Repeated ==
    prevEnv = [op |-> lastEnv.op, env |-> lastEnv.env, value |-> lastEnv.value]

\* C11, first part: appendEnv of a value that is already in the variable's list
\* leaves the environment unchanged.
C11_SkipsExisting ==
    (/\ lastEnv.op = "appendEnv"
     /\ lastEnv.before[lastEnv.env] # None
     /\ Contains(OldList, lastEnv.value)) => environ = lastEnv.before

\* C11, second part: appendEnv is idempotent; a second call with the same
\* variable and value leaves the environment the first call left.
C11_Idempotent ==
    (lastEnv.op = "appendEnv" /\ Repeated) => environ = lastEnv.before

\* C11, third part: when the value is not in the list of a set variable, the
\* variable becomes the old list, in its order, followed by the value, and no
\* other variable changes.
C11_AppendsAtEnd ==
    (/\ lastEnv.op = "appendEnv"
     /\ lastEnv.before[lastEnv.env] # None
     /\ ~Contains(OldList, lastEnv.value)) =>
        /\ environ[lastEnv.env]
               = Some(lastEnv.before[lastEnv.env][1] \o <<pathsep>> \o lastEnv.value)
        /\ getEnvs(environ, lastEnv.env) = OldList \o split(lastEnv.value, pathsep)
        /\ \A other \in EnvNames \ {lastEnv.env} : environ[other] = lastEnv.before[other]

C12_PrependEnv ==
    lastEnv.op = "prependEnv" =>
        LET old == lastEnv.before[lastEnv.env]
        IN  /\ (old = None) => environ[lastEnv.env] = Some(lastEnv.value)
            /\ (old # None /\ Contains(OldList, lastEnv.value)) =>
                   environ[lastEnv.env] = old
            /\ (old # None /\ ~Contains(OldList, lastEnv.value)) =>
                   /\ environ[lastEnv.env]
                          = Some(lastEnv.value \o <<pathsep>> \o old[1])
                   /\ getEnvs(environ, lastEnv.env)
                          = split(lastEnv.value, pathsep) \o OldList
            /\ \A other \in EnvNames \ {lastEnv.env} :
                   environ[other] = lastEnv.before[other]

\* C12 witness: prependEnv put "a" before the list b, c, and a second prependEnv
\* of "b", which the list holds at its second position, changed nothing.
C12_Witness ==
    /\ prevEnv.op = "prependEnv" /\ prevEnv.value = <<"a">>
    /\ lastEnv.op = "prependEnv" /\ lastEnv.value = <<"b">>
    /\ prevEnv.env = lastEnv.env
    /\ OldList = << <<"a">>, <<"b">>, <<"c">> >>
    /\ environ[lastEnv.env] = Some(<<"a", pathsep, "b", pathsep, "c">>)

====
